---- MODULE Spec2Model ----
(***************************************************************************)
(* A model of pykson (src/pykson/__init__.py): typed record classes whose  *)
(* fields are descriptors, the constructor installed by JsonObjectMeta,    *)
(* and the converter Pykson.from_json / Pykson.to_json.                     *)
(*                                                                         *)
(* Python values are tagged records.  A dict is a sequence of <<key,       *)
(* value>> pairs (insertion order is observable), an instance's _data is a *)
(* function from serialized names to values, and a str is either a plain   *)
(* string or JSON text, represented by the value the text denotes.         *)
(***************************************************************************)
EXTENDS Integers, Sequences, FiniteSets, TLC

VARIABLES call, ret, inst, op, res, text, back

vars == <<call, ret, inst, op, res, text, back>>

(***************************************************************************)
(* Python values                                                           *)
(***************************************************************************)
None == [k |-> "none"]
IntV(i) == [k |-> "int", i |-> i]
FloatV(x) == [k |-> "float", f |-> x]
BoolV(b) == [k |-> "bool", b |-> b]
StrV(s) == [k |-> "str", s |-> s]
TextV(j) == [k |-> "str", json |-> j]
ListV(items) == [k |-> "list", items |-> items]
DictV(entries) == [k |-> "dict", entries |-> entries]
ObjV(cls, data) == [k |-> "obj", cls |-> cls, data |-> data]

\* isinstance(value, t) for the builtin types the fields test against;
\* in Python bool is a subclass of int.
IsInstance(value, t) ==
    CASE t = "int" -> value.k \in {"int", "bool"}
      [] t = "float" -> value.k = "float"
      [] t = "bool" -> value.k = "bool"
      [] t = "str" -> value.k = "str"
      [] t = "list" -> value.k = "list"
      [] OTHER -> value.k = "obj" /\ value.cls = t

\* float(value) for a value that is an instance of int
ToFloat(value) ==
    IF value.k = "bool" THEN FloatV(IF value.b THEN 1 ELSE 0) ELSE FloatV(value.i)

\* value in self.options, after the isinstance test of the field has passed
\* (Python compares True equal to 1)
InOptions(value, options) ==
    CASE value.k = "str" -> "s" \in DOMAIN value /\ value.s \in options
      [] value.k = "int" -> value.i \in options
      [] value.k = "bool" -> (IF value.b THEN 1 ELSE 0) \in options
      [] OTHER -> FALSE

(***************************************************************************)
(* Outcomes: a returned value or a raised exception                        *)
(***************************************************************************)
Ok(v) == [ok |-> TRUE, val |-> v]
Raise(type, arg) == [ok |-> FALSE, err |-> [type |-> type, arg |-> arg]]

\* The exception classes the code raises, with what tells one raise from
\* another; arg is the name the exception's arguments or message carry.
TypeErr == "TypeError"
NullErr == "AssertionError: Null value for not nullable field"
ItemErr == "AssertionError: list item"
ValueErr == "ValueError: Invalid value"
UnknownErr == "Exception: value given but not defined in model as Field"
KeyErr == "KeyError"
JsonErr == "JSONDecodeError"
AttrErr == "AttributeError"

\* The outcome of a descriptor's __set__: whether it returned, the exception
\* it raised if not, and the instance's _data when it returned or raised.
Stored(data) == [ok |-> TRUE, data |-> data]
Failed(type, arg, data) ==
    [ok |-> FALSE, err |-> [type |-> type, arg |-> arg], data |-> data]

(***************************************************************************)
(* Record classes                                                          *)
(***************************************************************************)
NoName == "<None>"

Descr(type, name, serialized_name, null, options, item_type) ==
    [type |-> type, name |-> name, serialized_name |-> serialized_name,
     null |-> null, options |-> options, item_type |-> item_type]

IntegerField(name, sname, null) == Descr("IntegerField", name, sname, null, {}, "")
FloatField(name, sname, null) == Descr("FloatField", name, sname, null, {}, "")
BooleanField(name, sname, null) == Descr("BooleanField", name, sname, null, {}, "")
StringField(name, sname, null) == Descr("StringField", name, sname, null, {}, "")
MultipleChoiceStringField(name, options, sname, null) ==
    Descr("MultipleChoiceStringField", name, sname, null, options, "")
MultipleChoiceIntegerField(name, options, sname, null) ==
    Descr("MultipleChoiceIntegerField", name, sname, null, options, "")
ListField(name, item_type, sname, null) == Descr("ListField", name, sname, null, {}, item_type)
ObjectListField(name, item_type, sname, null) ==
    Descr("ObjectListField", name, sname, null, {}, item_type)

\* The class bodies the model is run on, in declaration order.
Declared(cls) ==
    CASE cls = "Score" ->
           << IntegerField("score", NoName, FALSE),
              StringField("course", "c", TRUE) >>
      [] cls = "Student" ->
           << StringField("name", NoName, FALSE),
              ObjectListField("marks", "Score", NoName, TRUE) >>
      [] cls = "Team" ->
           << ObjectListField("members", "Score", "members_list", FALSE),
              ListField("tags", "str", NoName, FALSE) >>
      [] cls = "Flags" ->
           << BooleanField("active", NoName, TRUE),
              FloatField("gpa", NoName, TRUE) >>
      [] cls = "Pick" ->
           << MultipleChoiceStringField("color", {"red", "green"}, NoName, FALSE),
              MultipleChoiceIntegerField("level", {1, 2}, NoName, TRUE) >>

Classes == {"Score", "Student", "Team", "Flags", "Pick"}

\* JsonObjectMeta.__new__: a field without serialized name gets its attribute name
Register(declared) ==
    [n \in DOMAIN declared |->
        IF declared[n].serialized_name = NoName
        THEN [declared[n] EXCEPT !.serialized_name = declared[n].name]
        ELSE declared[n]]

\* the classes once created, each with its fields in declaration order
Schema == [cls \in Classes |-> Register(Declared(cls))]

\* JsonObject.get_fields
Fields(cls) == Schema[cls]

FieldNames == [cls \in Classes |-> {Schema[cls][n].name : n \in DOMAIN Schema[cls]}]

\* model_field_names of my_custom_init
ModelFieldNames(cls) == FieldNames[cls]

SerializedNamesOf ==
    [cls \in Classes |-> {Schema[cls][n].serialized_name : n \in DOMAIN Schema[cls]}]

SerializedNames(cls) == SerializedNamesOf[cls]

\* the descriptor found by attribute lookup on the class
FieldNamed(cls, name) ==
    Schema[cls][CHOOSE n \in DOMAIN Schema[cls] : Schema[cls][n].name = name]

BySerializedName ==
    [cls \in Classes |->
        [s \in SerializedNamesOf[cls] |->
            LET last == CHOOSE n \in DOMAIN Schema[cls] :
                           /\ Schema[cls][n].serialized_name = s
                           /\ \A m \in DOMAIN Schema[cls] :
                                 Schema[cls][m].serialized_name = s => m <= n
            IN Schema[cls][last]]]

\* JsonObject.get_fields_mapped_by_serialized_names: later fields overwrite
FieldsMappedBySerializedNames(cls) == BySerializedName[cls]

NameBySerializedName ==
    [cls \in Classes |->
        [s \in SerializedNamesOf[cls] |-> BySerializedName[cls][s].name]]

\* JsonObject.get_field_names_mapped_by_serialized_names
FieldNamesMappedBySerializedNames(cls) == NameBySerializedName[cls]

(***************************************************************************)
(* Field descriptors: __get__ and __set__                                  *)
(***************************************************************************)
\* instance._data[self.serialized_name] = value
Store(field, data, value) ==
    [s \in DOMAIN data \cup {field.serialized_name} |->
        IF s = field.serialized_name THEN value ELSE data[s]]

\* Field.__set__ with the store moved before the null assertion
BaseSet_StoreFirst(field, data, value) ==
    IF ~field.null /\ value = None
    THEN Failed(NullErr, field.serialized_name, Store(field, data, value))
    ELSE Stored(Store(field, data, value))

\* Field.__set__ (the base class): the null assertion, then the store
BaseSet(field, data, value) ==
    IF ~field.null /\ value = None
    THEN Failed(NullErr, field.serialized_name, data)
    ELSE Stored(Store(field, data, value))

\* the item loop of ListField.__set__ and ObjectListField.__set__
ItemsOk(items, item_type) ==
    \A n \in DOMAIN items : items[n] # None /\ IsInstance(items[n], item_type)

\* <Kind>Field.__set__(instance, value) on an instance whose _data is data
IntegerField_set(field, data, value) ==
    IF value # None /\ ~IsInstance(value, "int") THEN Failed(TypeErr, field.name, data)
    ELSE BaseSet(field, data, value)

FloatField_set(field, data, value) ==
    LET widened == IF value # None /\ IsInstance(value, "int")
                   THEN ToFloat(value) ELSE value
    IN IF widened # None /\ ~IsInstance(widened, "float")
       THEN Failed(TypeErr, field.name, data)
       ELSE BaseSet(field, data, widened)

BooleanField_set(field, data, value) ==
    IF value # None /\ ~IsInstance(value, "bool") THEN Failed(TypeErr, field.name, data)
    ELSE BaseSet(field, data, value)

StringField_set(field, data, value) ==
    IF value # None /\ ~IsInstance(value, "str") THEN Failed(TypeErr, field.name, data)
    ELSE BaseSet(field, data, value)

MultipleChoiceStringField_set(field, data, value) ==
    IF value # None /\ ~IsInstance(value, "str") THEN Failed(TypeErr, field.name, data)
    ELSE IF value # None /\ ~InOptions(value, field.options)
    THEN Failed(ValueErr, "", data)
    ELSE BaseSet(field, data, value)

MultipleChoiceIntegerField_set(field, data, value) ==
    IF value # None /\ ~IsInstance(value, "int") THEN Failed(TypeErr, field.name, data)
    ELSE IF value # None /\ ~InOptions(value, field.options)
    THEN Failed(ValueErr, "", data)
    ELSE BaseSet(field, data, value)

ListField_set(field, data, value) ==
    IF value # None /\ ~IsInstance(value, "list") THEN Failed(TypeErr, field.name, data)
    ELSE LET items == IF value = None THEN ListV(<<>>) ELSE value
         IN IF ~ItemsOk(items.items, field.item_type)
            THEN Failed(ItemErr, field.item_type, data)
            ELSE BaseSet(field, data, items)

ObjectListField_set(field, data, value) ==
    IF value # None /\ ~IsInstance(value, "list") THEN Failed(TypeErr, field.name, data)
    ELSE LET items == IF value = None THEN ListV(<<>>) ELSE value
         IN IF ~ItemsOk(items.items, field.item_type)
            THEN Failed(ItemErr, field.item_type, data)
            ELSE BaseSet(field, data, items)

\* setattr(instance, field.name, value): the __set__ of the descriptor's class
FieldSetValue(field, data, value) ==
    CASE field.type = "IntegerField" -> IntegerField_set(field, data, value)
      [] field.type = "FloatField" -> FloatField_set(field, data, value)
      [] field.type = "BooleanField" -> BooleanField_set(field, data, value)
      [] field.type = "StringField" -> StringField_set(field, data, value)
      [] field.type = "MultipleChoiceStringField" ->
           MultipleChoiceStringField_set(field, data, value)
      [] field.type = "MultipleChoiceIntegerField" ->
           MultipleChoiceIntegerField_set(field, data, value)
      [] field.type = "ListField" -> ListField_set(field, data, value)
      [] field.type = "ObjectListField" -> ObjectListField_set(field, data, value)

\* Field.__get__
FieldGet(field, data) ==
    IF field.serialized_name \in DOMAIN data
    THEN Ok(data[field.serialized_name])
    ELSE Raise(KeyErr, field.serialized_name)

(***************************************************************************)
(* Construction: the __init__ that JsonObjectMeta installs on every class  *)
(***************************************************************************)
EmptyData == [s \in {} |-> None]

RECURSIVE InitLoop(_, _, _, _, _)
\* the loop of my_custom_init over init_kwargs, from entry n on
InitLoop(cls, accept_unknown, kwargs, n, data) ==
    IF n > Len(kwargs) THEN Ok(ObjV(cls, data))
    ELSE LET key == kwargs[n][1]
             value == kwargs[n][2]
         IN IF key \in ModelFieldNames(cls)
            THEN LET set == FieldSetValue(FieldNamed(cls, key), data, value)
                 IN IF set.ok
                    THEN InitLoop(cls, accept_unknown, kwargs, n + 1, set.data)
                    ELSE [ok |-> FALSE, err |-> set.err]
            ELSE IF ~accept_unknown THEN Raise(UnknownErr, key)
            ELSE InitLoop(cls, accept_unknown, kwargs, n + 1, data)

\* my_custom_init with the accept_unknown test lost
MyCustomInit_FlagIgnored(cls, accept_unknown, kwargs) ==
    InitLoop(cls, TRUE, kwargs, 1, EmptyData)

\* my_custom_init walking init_kwargs from its last entry to its first
MyCustomInit_LastFirst(cls, accept_unknown, kwargs) ==
    InitLoop(cls, accept_unknown,
             [n \in DOMAIN kwargs |-> kwargs[Len(kwargs) + 1 - n]], 1, EmptyData)

\* cls(accept_unknown=..., **kwargs)
MyCustomInit(cls, accept_unknown, kwargs) ==
    InitLoop(cls, accept_unknown, kwargs, 1, EmptyData)

(***************************************************************************)
(* The converter                                                           *)
(***************************************************************************)
\* json.dumps / json.loads: the text of a value is represented by the value
\* it denotes; a plain string is no JSON text
Dumps(value) == TextV(value)

Loads(str) == IF "json" \in DOMAIN str THEN Ok(str.json) ELSE Raise(JsonErr, "")

\* d[key] = value on an insertion-ordered dict
DictPut(entries, key, value) ==
    IF \E n \in DOMAIN entries : entries[n][1] = key
    THEN [n \in DOMAIN entries |->
            IF entries[n][1] = key THEN <<key, value>> ELSE entries[n]]
    ELSE Append(entries, <<key, value>>)

RECURSIVE FromJson(_, _, _)
RECURSIVE DecodeItems(_, _, _, _)
RECURSIVE CopyLoop(_, _, _, _)

\* the inner loop of from_json over the items of a list value, from item n on
DecodeItems(items, item_type, n, done) ==
    IF n > Len(items) THEN Ok(ListV(done))
    ELSE LET item == FromJson(items[n], item_type, FALSE)
         IN IF item.ok THEN DecodeItems(items, item_type, n + 1, Append(done, item.val))
            ELSE item

\* the loop of from_json over data.items(), from entry n on, building data_copy
CopyLoop(cls, entries, n, data_copy) ==
    IF n > Len(entries) THEN Ok(data_copy)
    ELSE LET data_key == entries[n][1]
             data_value == entries[n][2]
             by_serialized == FieldsMappedBySerializedNames(cls)
             names == FieldNamesMappedBySerializedNames(cls)
         IN IF /\ IsInstance(data_value, "list")
               /\ data_key \in DOMAIN by_serialized
               /\ by_serialized[data_key].type = "ObjectListField"
            THEN LET list == DecodeItems(data_value.items,
                                         by_serialized[data_key].item_type, 1, <<>>)
                 IN IF list.ok
                    THEN CopyLoop(cls, entries, n + 1,
                                  DictPut(data_copy, data_key, list.val))
                    ELSE list
            ELSE IF data_key \in DOMAIN names
            THEN CopyLoop(cls, entries, n + 1,
                          DictPut(data_copy, names[data_key], data_value))
            ELSE CopyLoop(cls, entries, n + 1,
                          DictPut(data_copy, data_key, data_value))

\* Pykson.from_json(data, cls, accept_unknown)
FromJson(data, cls, accept_unknown) ==
    LET loaded == IF IsInstance(data, "str") THEN Loads(data) ELSE Ok(data)
    IN IF ~loaded.ok THEN loaded
       ELSE IF loaded.val.k # "dict" THEN Raise(AttrErr, "items")
       ELSE LET copy == CopyLoop(cls, loaded.val.entries, 1, <<>>)
            IN IF ~copy.ok THEN copy
               ELSE MyCustomInit(cls, accept_unknown, copy.val)

RECURSIVE ToJson(_)
RECURSIVE ValuesLoop(_, _, _)
RECURSIVE FinalLoop(_, _, _)
RECURSIVE ItemsLoop(_, _, _)

\* JsonObject.get_field_values_as_dict: reads every field of the class
ValuesLoop(item, n, fields_dict) ==
    IF n > Len(Fields(item.cls)) THEN Ok(fields_dict)
    ELSE LET field == Fields(item.cls)[n]
             field_value == FieldGet(field, item.data)
         IN IF field_value.ok
            THEN ValuesLoop(item, n + 1,
                            DictPut(fields_dict, field.serialized_name, field_value.val))
            ELSE field_value

\* the inner loop of to_json over the items of a list value
ItemsLoop(items, n, list_value) ==
    IF n > Len(items) THEN Ok(ListV(list_value))
    ELSE IF items[n].k = "obj"
    THEN LET str == ToJson(items[n])
         IN IF str.ok THEN ItemsLoop(items, n + 1, Append(list_value, str.val))
            ELSE str
    ELSE ItemsLoop(items, n + 1, Append(list_value, items[n]))

\* the loop of to_json over fields_dict.items(), building final_dict
FinalLoop(fields_dict, n, final_dict) ==
    IF n > Len(fields_dict) THEN Ok(final_dict)
    ELSE LET field_key == fields_dict[n][1]
             field_value == fields_dict[n][2]
         IN IF field_value.k = "obj"
            THEN LET str == ToJson(field_value)
                 IN IF str.ok
                    THEN FinalLoop(fields_dict, n + 1,
                                   DictPut(final_dict, field_key, str.val))
                    ELSE str
            ELSE IF field_value.k = "list"
            THEN LET list == ItemsLoop(field_value.items, 1, <<>>)
                 IN IF list.ok
                    THEN FinalLoop(fields_dict, n + 1,
                                   DictPut(final_dict, field_key, list.val))
                    ELSE list
            ELSE FinalLoop(fields_dict, n + 1,
                           DictPut(final_dict, field_key, field_value))

\* Pykson.to_json(item)
ToJson(item) ==
    LET fields_dict == ValuesLoop(item, 1, <<>>)
    IN IF ~fields_dict.ok THEN fields_dict
       ELSE LET final_dict == FinalLoop(fields_dict.val, 1, <<>>)
            IN IF ~final_dict.ok THEN final_dict
               ELSE Ok(Dumps(DictV(final_dict.val)))

(***************************************************************************)
(* Inputs                                                                  *)
(***************************************************************************)
\* the largest number of entries of an input mapping
MaxKeys == 2

\* JSON objects for the elements of a list of Score
ElemPlain == DictV(<< <<"score", IntV(1)>> >>)
ElemNamed == DictV(<< <<"score", IntV(1)>>, <<"c", StrV("red")>> >>)
ElemBad == DictV(<< <<"score", StrV("red")>> >>)
ElemUnknown == DictV(<< <<"score", IntV(1)>>, <<"extra", IntV(1)>> >>)

\* values of a parsed JSON document
JsonValues ==
    { None, IntV(1), StrV("red"), StrV("blue"),
      ListV(<<>>), ListV(<<StrV("red")>>),
      ListV(<<ElemNamed, ElemPlain>>),
      ListV(<<ElemBad>>), ListV(<<ElemPlain, ElemUnknown>>) }

\* Score instances held by the caller: Score(score=1, course=None) and
\* Score(score=1, course="red")
ScoreFull == ObjV("Score", [s \in {"score", "c"} |->
                              IF s = "score" THEN IntV(1) ELSE None])
ScoreNamed == ObjV("Score", [s \in {"score", "c"} |->
                               IF s = "score" THEN IntV(1) ELSE StrV("red")])

\* values the caller passes to a constructor
InitValues ==
    { None, IntV(1), BoolV(TRUE), StrV("red"), StrV("blue"),
      ListV(<<>>), ListV(<<StrV("red")>>),
      ListV(<<ScoreNamed>>), ListV(<<ScoreNamed, ScoreFull>>) }

\* values the caller assigns to a field
PyValues ==
    InitValues \cup { IntV(3), FloatV(1), ListV(<<None>>), ListV(<<ElemPlain>>) }

UnknownKey == "extra"

\* insertion-ordered mappings with at most MaxKeys entries
Mappings(keys, values) ==
    UNION { { m \in [1..n -> keys \X values] :
                \A i, j \in 1..n : i # j => m[i][1] # m[j][1] } : n \in 0..MaxKeys }

(***************************************************************************)
(* State                                                                   *)
(***************************************************************************)
NoCall == [fn |-> "none"]
NoRet == [pending |-> FALSE]
NoInst == [k |-> "none"]
NoOp == [name |-> "none"]

Init ==
    /\ call = NoCall
    /\ ret = NoRet
    /\ inst = NoInst
    /\ op = NoOp
    /\ res = NoRet
    /\ text = NoRet
    /\ back = NoRet

\* the caller evaluates cls(accept_unknown=..., **kwargs)
Construct ==
    /\ call = NoCall /\ inst = NoInst
    /\ \E cls \in Classes, accept_unknown \in BOOLEAN :
         \E kwargs \in Mappings(ModelFieldNames(cls) \cup {UnknownKey}, InitValues) :
            /\ call' = [fn |-> "init", cls |-> cls,
                        accept_unknown |-> accept_unknown, args |-> kwargs]
            /\ ret' = MyCustomInit(cls, accept_unknown, kwargs)
    /\ UNCHANGED <<inst, op, res, text, back>>

\* the caller evaluates Pykson.from_json(data, cls, accept_unknown) on a mapping
Decode ==
    /\ call = NoCall /\ inst = NoInst
    /\ \E cls \in Classes, accept_unknown \in BOOLEAN :
         \E entries \in Mappings(SerializedNames(cls) \cup ModelFieldNames(cls) \cup {UnknownKey},
                               JsonValues) :
            /\ call' = [fn |-> "from_json", cls |-> cls,
                        accept_unknown |-> accept_unknown, args |-> entries]
            /\ ret' = FromJson(DictV(entries), cls, accept_unknown)
    /\ UNCHANGED <<inst, op, res, text, back>>

\* the call returned an instance and the caller keeps it
Bind ==
    /\ call # NoCall /\ ret.ok
    /\ inst' = ret.val
    /\ call' = NoCall
    /\ ret' = NoRet
    /\ UNCHANGED <<op, res, text, back>>

\* instance.<name> = value
Assign ==
    /\ inst # NoInst
    /\ \E name \in ModelFieldNames(inst.cls), value \in PyValues :
         LET set == FieldSetValue(FieldNamed(inst.cls, name), inst.data, value)
         IN /\ op' = [name |-> "set", field |-> name, value |-> value]
            /\ res' = IF set.ok THEN Ok(None) ELSE [ok |-> FALSE, err |-> set.err]
            /\ inst' = [inst EXCEPT !.data = set.data]
    /\ text' = NoRet
    /\ back' = NoRet
    /\ UNCHANGED <<call, ret>>

\* instance.<name>
Read ==
    /\ inst # NoInst
    /\ \E name \in ModelFieldNames(inst.cls) :
         /\ op' = [name |-> "get", field |-> name]
         /\ res' = FieldGet(FieldNamed(inst.cls, name), inst.data)
    /\ UNCHANGED <<call, ret, inst, text, back>>

\* text = Pykson.to_json(instance)
Encode ==
    /\ inst # NoInst
    /\ op' = [name |-> "to_json"]
    /\ res' = ToJson(inst)
    /\ text' = ToJson(inst)
    /\ back' = NoRet
    /\ UNCHANGED <<call, ret, inst>>

\* back = Pykson.from_json(text, type(instance))
DecodeText ==
    /\ inst # NoInst
    /\ text # NoRet /\ text.ok
    /\ op' = [name |-> "from_json"]
    /\ res' = FromJson(text.val, inst.cls, FALSE)
    /\ back' = FromJson(text.val, inst.cls, FALSE)
    /\ UNCHANGED <<call, ret, inst, text>>

Next ==
    \/ Construct
    \/ Decode
    \/ Bind
    \/ Assign
    \/ Read
    \/ Encode
    \/ DecodeText

Spec == Init /\ [][Next]_vars

(***************************************************************************)
(* Vocabulary of the properties                                            *)
(***************************************************************************)
\* the call in progress, evaluated on other arguments
Apply(fn, cls, accept_unknown, args) ==
    IF fn = "init" THEN MyCustomInit(cls, accept_unknown, args)
    ELSE FromJson(DictV(args), cls, accept_unknown)

\* the keys under which the call can supply field n of its class
KeysOf(c, n) ==
    IF c.fn = "init" THEN {Fields(c.cls)[n].name}
    ELSE {Fields(c.cls)[n].name, Fields(c.cls)[n].serialized_name}

\* the input has an entry for field n; it supplies a value for it
Named(c, n) == \E i \in DOMAIN c.args : c.args[i][1] \in KeysOf(c, n)

Supplied(c, n) ==
    \E i \in DOMAIN c.args : c.args[i][1] \in KeysOf(c, n) /\ c.args[i][2] # None

DeclaredKeys(c) == UNION {KeysOf(c, n) : n \in DOMAIN Fields(c.cls)}

UnknownEntries(c) == {i \in DOMAIN c.args : c.args[i][1] \notin DeclaredKeys(c)}

IsDeclared(c, entry) == entry[1] \in DeclaredKeys(c)

\* the input of the call without its undeclared keys
KnownArgs(c) == SelectSeq(c.args, LAMBDA entry : IsDeclared(c, entry))

\* every non-nullable field of the call's class is supplied
RequiredSupplied(c) ==
    \A n \in DOMAIN Fields(c.cls) : ~Fields(c.cls)[n].null => Supplied(c, n)

\* no two entries of the call's input name the same field
NoFieldTwice(c) ==
    \A i, j \in DOMAIN c.args :
       i # j => \A n \in DOMAIN Fields(c.cls) :
                   ~(c.args[i][1] \in KeysOf(c, n) /\ c.args[j][1] \in KeysOf(c, n))

\* C2: a call that leaves a non-nullable field unsupplied returns no
\* instance, and on the empty input the error is the null-value error.
C2_MissingNonNullableFails ==
    (call # NoCall /\ ~RequiredSupplied(call))
    => /\ ~ret.ok
       /\ call.args = <<>> => ret.err.type = NullErr

RequiredHeld(i) ==
    \A n \in DOMAIN Fields(i.cls) :
       ~Fields(i.cls)[n].null => Fields(i.cls)[n].serialized_name \in DOMAIN i.data

\* C1: encoding an instance that holds its non-nullable fields succeeds, and
\* decoding the text into the instance's class succeeds and gives every
\* declared field the value the instance holds.
C1_RoundTrip ==
    /\ (inst # NoInst /\ RequiredHeld(inst) /\ op.name = "to_json") => text.ok
    /\ (inst # NoInst /\ RequiredHeld(inst) /\ op.name = "from_json") =>
          /\ back.ok
          /\ \A n \in DOMAIN Fields(inst.cls) :
                /\ FieldGet(Fields(inst.cls)[n], inst.data).ok
                /\ FieldGet(Fields(inst.cls)[n], back.val.data)
                      = FieldGet(Fields(inst.cls)[n], inst.data)

\* C4: the _data of an instance that holds its non-nullable fields has
\* exactly one entry per declared field, and reading a declared field of it
\* returns a value.
C4_FullyPopulated ==
    (inst # NoInst /\ RequiredHeld(inst)) =>
       /\ DOMAIN inst.data = SerializedNames(inst.cls)
       /\ op.name = "get" => res.ok

\* the entries of a from_json call that carry a list under the serialized
\* name of an ObjectListField
IsObjectListEntry(cls, entry) ==
    /\ IsInstance(entry[2], "list")
    /\ entry[1] \in SerializedNames(cls)
    /\ FieldsMappedBySerializedNames(cls)[entry[1]].type = "ObjectListField"

ElementsValid(cls, entry) ==
    \A n \in DOMAIN entry[2].items :
       FromJson(entry[2].items[n],
                FieldsMappedBySerializedNames(cls)[entry[1]].item_type, FALSE).ok

Without(args, i) == [n \in 1..(Len(args) - 1) |-> IF n < i THEN args[n] ELSE args[n + 1]]

\* C5: a from_json input that supplies every non-nullable field, names no
\* field twice and is valid without one of its entries, that entry being an
\* array of valid objects under the serialized name of an ObjectListField,
\* decodes to an instance whose field is the list of the decoded objects,
\* in input order.
C5_ObjectListDecoded ==
    (call # NoCall /\ call.fn = "from_json"
        /\ RequiredSupplied(call) /\ NoFieldTwice(call)) =>
       \A i \in DOMAIN call.args :
          (/\ IsObjectListEntry(call.cls, call.args[i])
           /\ ElementsValid(call.cls, call.args[i])
           /\ FromJson(DictV(Without(call.args, i)), call.cls, call.accept_unknown).ok)
          => /\ ret.ok
             /\ call.args[i][1] \in DOMAIN ret.val.data
             /\ ret.val.data[call.args[i][1]].k = "list"
             /\ LET items == call.args[i][2].items
                    field == FieldsMappedBySerializedNames(call.cls)[call.args[i][1]]
                    decoded == ret.val.data[call.args[i][1]].items
                IN /\ Len(decoded) = Len(items)
                   /\ \A n \in DOMAIN items :
                         decoded[n] = FromJson(items[n], field.item_type, FALSE).val

\* C6: the text of to_json denotes a mapping with one key per declared
\* field, its serialized name, and a list of instances is emitted as an
\* array of JSON objects.
C6_WireFormat ==
    (inst # NoInst /\ op.name = "to_json" /\ text.ok) =>
       LET doc == text.val.json
       IN /\ doc.k = "dict"
          /\ {doc.entries[n][1] : n \in DOMAIN doc.entries} = SerializedNames(inst.cls)
          /\ Len(doc.entries) = Len(Fields(inst.cls))
          /\ \A n \in DOMAIN Fields(inst.cls) :
                Fields(inst.cls)[n].type = "ObjectListField" =>
                   \A e \in DOMAIN doc.entries :
                      doc.entries[e][1] = Fields(inst.cls)[n].serialized_name =>
                         /\ doc.entries[e][2].k = "list"
                         /\ \A m \in DOMAIN doc.entries[e][2].items :
                               doc.entries[e][2].items[m].k = "dict"

\* the kind of a scalar field class and of a value
KindOfField(field) ==
    CASE field.type = "IntegerField" -> "int"
      [] field.type = "FloatField" -> "float"
      [] field.type = "BooleanField" -> "bool"
      [] field.type = "StringField" -> "str"
      [] OTHER -> "other"

\* C7: assigning to a scalar field a non-null value of another kind raises
\* TypeError, except that an int assigned to a FloatField is stored as the
\* float of the same number.
C7_KindChecked ==
    (inst # NoInst /\ op.name = "set") =>
       LET field == FieldNamed(inst.cls, op.field)
       IN (/\ KindOfField(field) # "other"
           /\ op.value # None
           /\ op.value.k # KindOfField(field))
          => IF KindOfField(field) = "float" /\ op.value.k = "int"
             THEN res.ok /\ FieldGet(field, inst.data) = Ok(FloatV(op.value.i))
             ELSE ~res.ok /\ res.err.type = TypeErr

\* C8: an assignment that raises leaves the instance's _data as it was.
C8_FailedAssignNoOp ==
    [][(op'.name = "set" /\ ~res'.ok) => inst' = inst]_vars

C8_Witness ==
    /\ inst # NoInst /\ op.name = "set" /\ ~res.ok
    /\ FieldNamed(inst.cls, op.field).serialized_name \in DOMAIN inst.data

\* C9: assigning None to a non-nullable field of any kind raises the
\* null-value assertion.
C9_NullCheckedFirst ==
    (/\ inst # NoInst /\ op.name = "set"
     /\ op.value = None
     /\ ~FieldNamed(inst.cls, op.field).null)
    => ~res.ok /\ res.err.type = NullErr

\* the from_json call on entry i of its input alone
Single(c, i) == FromJson(DictV(<<c.args[i]>>), c.cls, c.accept_unknown)

\* the entries that are invalid on their own
Invalid(c) == {i \in DOMAIN c.args : ~Single(c, i).ok}

\* the entries that are a list for an ObjectListField with an invalid element
InvalidElement(c) ==
    {i \in DOMAIN c.args : /\ IsObjectListEntry(c.cls, c.args[i])
                           /\ ~ElementsValid(c.cls, c.args[i])}

First(S) == CHOOSE i \in S : \A j \in S : i <= j

\* C10 as stated: from_json raises the error of the invalid entry that comes
\* first in the input's key order.
C10_FirstInvalidEntryRaises ==
    (/\ call # NoCall /\ call.fn = "from_json"
     /\ NoFieldTwice(call)
     /\ Invalid(call) # {})
    => ~ret.ok /\ ret.err = Single(call, First(Invalid(call))).err

\* C10 amended: when no field is named twice, from_json raises the error of
\* the first entry, in the input's key order, that is a list for an
\* ObjectListField with an invalid element; when there is none, the error
\* of the first invalid entry in the input's key order.
C10_ElementsThenEntries ==
    (/\ call # NoCall /\ call.fn = "from_json"
     /\ NoFieldTwice(call)
     /\ Invalid(call) # {})
    => /\ ~ret.ok
       /\ ret.err = Single(call, First(IF InvalidElement(call) # {}
                                       THEN InvalidElement(call)
                                       ELSE Invalid(call))).err

C10_Witness ==
    /\ call # NoCall /\ call.fn = "from_json"
    /\ Len(call.args) = 2
    /\ Invalid(call) = {1, 2}
    /\ InvalidElement(call) = {2}
    /\ ~ret.ok
    /\ ret.err = Single(call, 2).err
    /\ ret.err # Single(call, 1).err

\* the keys a from_json call on class cls takes for declared fields
DeclaredOn(cls) == SerializedNames(cls) \cup ModelFieldNames(cls)

\* element item of a list for an ObjectListField of item_type carries a key
\* the item type does not declare
HasUnknownKey(item, item_type) ==
    /\ item.k = "dict"
    /\ \E n \in DOMAIN item.entries : item.entries[n][1] \notin DeclaredOn(item_type)

\* the element without the keys its type does not declare
Discarded(item, item_type) ==
    IF item.k = "dict"
    THEN DictV(SelectSeq(item.entries,
                         LAMBDA entry : entry[1] \in DeclaredOn(item_type)))
    ELSE item

\* the entries of the call that are a list for an ObjectListField with an
\* element carrying an undeclared key
NestedUnknown(c) ==
    {i \in DOMAIN c.args :
        /\ IsObjectListEntry(c.cls, c.args[i])
        /\ \E n \in DOMAIN c.args[i][2].items :
              HasUnknownKey(c.args[i][2].items[n],
                            FieldsMappedBySerializedNames(c.cls)[c.args[i][1]].item_type)}

\* the input of the call with the undeclared keys of its nested elements
\* discarded
NestedDiscarded(c) ==
    [i \in DOMAIN c.args |->
        IF IsObjectListEntry(c.cls, c.args[i])
        THEN <<c.args[i][1],
               ListV([n \in DOMAIN c.args[i][2].items |->
                        Discarded(c.args[i][2].items[n],
                                  FieldsMappedBySerializedNames(c.cls)[c.args[i][1]].item_type)])>>
        ELSE c.args[i]]

\* C11: a from_json input that supplies every non-nullable field, names no
\* field twice, decodes to an instance holding its lists of records once the
\* undeclared keys of its nested list elements are discarded, and has a
\* nested list element with an undeclared key: with accept_unknown it
\* decodes to that same instance, and without accept_unknown it fails with
\* the unknown-field error.
C11_FlagGovernsNestedDecode ==
    (/\ call # NoCall /\ call.fn = "from_json"
     /\ RequiredSupplied(call) /\ NoFieldTwice(call)
     /\ NestedUnknown(call) # {}
     /\ LET clean == FromJson(DictV(NestedDiscarded(call)), call.cls, TRUE)
        IN /\ clean.ok
           /\ \A i \in NestedUnknown(call) : call.args[i][1] \in DOMAIN clean.val.data)
    => IF call.accept_unknown
       THEN ret = FromJson(DictV(NestedDiscarded(call)), call.cls, TRUE)
       ELSE ~ret.ok /\ ret.err.type = UnknownErr

====
